---- MODULE Spec2Model ----
(***************************************************************************)
(* Model of nodes/text_to_speech.py: the MIME parameter parser             *)
(* parse_audio_mime_type and the PCM -> WAV encoder convert_to_wav.        *)
(*                                                                         *)
(* A Python str is a sequence of one-character strings, a bytes object a   *)
(* sequence of integers 0..255.  An Optional[str] is a record              *)
(* [none, str]; the outcome of a call is a record whose exc field is       *)
(* "none" when the call returned and the exception class when it raised.   *)
(***************************************************************************)
EXTENDS Integers, Sequences, FiniteSets, TLC

(***************************************************************************)
(* Bounds of the checked input space.                                      *)
(***************************************************************************)
\* most ';'-separated segments in a MIME string given to a single call
MaxSegs == 2
\* longest PCM payload, in bytes
MaxPayload == 2
\* number of calls running concurrently in SpecThreads
NumThreads == 2

(***************************************************************************)
(* Python str methods used by the parser.                                  *)
(***************************************************************************)
UpperCase == <<"A", "B", "C", "D", "E", "F", "G", "H", "I", "J", "K", "L", "M",
               "N", "O", "P", "Q", "R", "S", "T", "U", "V", "W", "X", "Y", "Z">>
LowerCase == <<"a", "b", "c", "d", "e", "f", "g", "h", "i", "j", "k", "l", "m",
               "n", "o", "p", "q", "r", "s", "t", "u", "v", "w", "x", "y", "z">>
DigitChars == <<"0", "1", "2", "3", "4", "5", "6", "7", "8", "9">>
Whitespace == {" ", "\t"}

\* str.find for a one-character needle: 1-based index of the first
\* occurrence, 0 when there is none
find(s, c) ==
  IF \E i \in 1..Len(s) : s[i] = c
  THEN CHOOSE i \in 1..Len(s) : s[i] = c /\ \A j \in 1..(i - 1) : s[j] # c
  ELSE 0

lower_char(c) ==
  IF find(UpperCase, c) = 0 THEN c ELSE LowerCase[find(UpperCase, c)]

\* str.lower()
lower(s) == [i \in 1..Len(s) |-> lower_char(s[i])]

\* str.strip(): drop leading and trailing whitespace
strip(s) ==
  IF \A i \in 1..Len(s) : s[i] \in Whitespace
  THEN <<>>
  ELSE LET first == CHOOSE i \in 1..Len(s) :
                      s[i] \notin Whitespace /\ \A j \in 1..(i - 1) : s[j] \in Whitespace
           last  == CHOOSE i \in 1..Len(s) :
                      s[i] \notin Whitespace /\ \A j \in (i + 1)..Len(s) : s[j] \in Whitespace
       IN  SubSeq(s, first, last)

\* str.startswith(prefix)
startswith(s, prefix) ==
  Len(s) >= Len(prefix) /\ SubSeq(s, 1, Len(prefix)) = prefix

\* str.split(sep) for a one-character separator: "" splits to [""]
RECURSIVE split(_, _)
split(s, sep) ==
  LET i == find(s, sep)
  IN  IF i = 0 THEN <<s>>
      ELSE <<SubSeq(s, 1, i - 1)>> \o split(SubSeq(s, i + 1, Len(s)), sep)

\* str.split(sep, 1): at most one split, at the first occurrence
split_1(s, sep) ==
  LET i == find(s, sep)
  IN  IF i = 0 THEN <<s>>
      ELSE <<SubSeq(s, 1, i - 1), SubSeq(s, i + 1, Len(s))>>

\* sep.join(parts), the inverse of split
RECURSIVE join(_, _)
join(parts, sep) ==
  IF Len(parts) = 0 THEN <<>>
  ELSE IF Len(parts) = 1 THEN parts[1]
  ELSE parts[1] \o <<sep>> \o join(Tail(parts), sep)

(***************************************************************************)
(* int(str): surrounding whitespace, an optional sign, then decimal digits *)
(* with single underscores allowed between digits; anything else raises    *)
(* ValueError.                                                             *)
(***************************************************************************)
IsDigit(c) == find(DigitChars, c) # 0
DigitVal(c) == find(DigitChars, c) - 1

ValidDigits(d) ==
  /\ Len(d) > 0
  /\ \A i \in 1..Len(d) :
       \/ IsDigit(d[i])
       \/ /\ d[i] = "_"
          /\ i > 1 /\ i < Len(d)
          /\ IsDigit(d[i - 1]) /\ IsDigit(d[i + 1])

RECURSIVE DigitsValue(_, _)
DigitsValue(d, acc) ==
  IF Len(d) = 0 THEN acc
  ELSE IF d[1] = "_" THEN DigitsValue(Tail(d), acc)
  ELSE DigitsValue(Tail(d), 10 * acc + DigitVal(d[1]))

int(s) ==
  LET t      == strip(s)
      signed == Len(t) > 0 /\ t[1] \in {"+", "-"}
      d      == IF signed THEN Tail(t) ELSE t
      mag    == DigitsValue(d, 0)
  IN  IF ValidDigits(d)
      THEN [exc |-> "none", val |-> IF signed /\ t[1] = "-" THEN 0 - mag ELSE mag]
      ELSE [exc |-> "ValueError", val |-> 0]

\* str(int): decimal digits, '-' in front of a negative number
RECURSIVE NatToStr(_)
NatToStr(n) ==
  IF n < 10 THEN <<DigitChars[n + 1]>>
  ELSE NatToStr(n \div 10) \o <<DigitChars[(n % 10) + 1]>>

str(n) == IF n < 0 THEN <<"-">> \o NatToStr(0 - n) ELSE NatToStr(n)

(***************************************************************************)
(* Optional[str] and `x or ""`.                                            *)
(***************************************************************************)
None == [none |-> TRUE, str |-> <<>>]
Str(s) == [none |-> FALSE, str |-> s]

\* mime_type or "": None and "" are both falsy
or_empty(m) == IF m.none THEN <<>> ELSE m.str

(***************************************************************************)
(* parse_audio_mime_type                                                   *)
(***************************************************************************)
DefaultBits == 16
DefaultRate == 24000

RatePrefix == <<"r", "a", "t", "e", "=">>
BitsPrefix == <<"a", "u", "d", "i", "o", "/", "L">>

\* variant: a handler for one unrelated exception class
except_TypeError(exc) == exc = "TypeError"
\* `except Exception:` catches every exception class the try bodies can raise
except_Exception(exc) == exc \in {"ValueError", "IndexError", "TypeError"}

\* int(p.split(c, 1)[1]): IndexError when p has no c
int_after(p, c) ==
  LET parts == split_1(p, c)
  IN  IF Len(parts) < 2 THEN [exc |-> "IndexError", val |-> 0]
      ELSE int(parts[2])

\* variant: a failed parse puts the default back
rate_branch_reset(st, p) ==
  IF startswith(lower(p), RatePrefix)
  THEN LET r == int_after(p, "=")
       IN  IF r.exc = "none" THEN [st EXCEPT !.rate = r.val]
           ELSE [st EXCEPT !.rate = DefaultRate]
  ELSE st

\* the locals of one call: [bits_per_sample, rate, exc]
\* if p.lower().startswith("rate="): try: rate = int(...) except Exception: pass
rate_branch(st, p) ==
  IF startswith(lower(p), RatePrefix)
  THEN LET r == int_after(p, "=")
       IN  IF r.exc = "none" THEN [st EXCEPT !.rate = r.val]
           ELSE IF except_Exception(r.exc) THEN st
           ELSE [st EXCEPT !.exc = r.exc]
  ELSE st

\* variant: the 'audio/L' prefix compared without regard to case
bits_branch_anycase(st, p) ==
  IF startswith(lower(p), lower(BitsPrefix))
  THEN LET r == int_after(lower(p), "l")
       IN  IF r.exc = "none" THEN [st EXCEPT !.bits_per_sample = r.val]
           ELSE st
  ELSE st

\* if p.startswith("audio/L"): try: bits_per_sample = int(...) except Exception: pass
bits_branch(st, p) ==
  IF startswith(p, BitsPrefix)
  THEN LET r == int_after(p, "L")
       IN  IF r.exc = "none" THEN [st EXCEPT !.bits_per_sample = r.val]
           ELSE IF except_Exception(r.exc) THEN st
           ELSE [st EXCEPT !.exc = r.exc]
  ELSE st

\* one iteration of `for p in parts`
loop_body(st, p) ==
  LET s1 == rate_branch(st, p)
  IN  IF s1.exc # "none" THEN s1 ELSE bits_branch(s1, p)

\* variant: only the first segment is looked at
for_parts_first(st, parts) ==
  IF Len(parts) = 0 THEN st ELSE loop_body(st, parts[1])

RECURSIVE for_parts(_, _)
for_parts(st, parts) ==
  IF Len(parts) = 0 \/ st.exc # "none" THEN st
  ELSE for_parts(loop_body(st, parts[1]), Tail(parts))

\* parts = [p.strip() for p in (mime_type or "").split(";")]
mime_parts(m) ==
  LET raw == split(or_empty(m), ";")
  IN  [i \in 1..Len(raw) |-> strip(raw[i])]

\* variant: another default sample width
parse_locals_8bit == [bits_per_sample |-> 8, rate |-> DefaultRate, exc |-> "none"]
parse_locals == [bits_per_sample |-> DefaultBits, rate |-> DefaultRate, exc |-> "none"]

parse_audio_mime_type(m) == for_parts(parse_locals, mime_parts(m))

(***************************************************************************)
(* Python integers are unbounded.  A value handed to struct.pack is kept   *)
(* as a sign and its little-endian base-256 digits (most significant digit *)
(* non-zero), so that a product wider than 32 bits is represented exactly. *)
(***************************************************************************)
RECURSIVE to_digits(_)
to_digits(n) == IF n = 0 THEN <<>> ELSE <<n % 256>> \o to_digits(n \div 256)

abs(n) == IF n < 0 THEN 0 - n ELSE n

PyInt(n) == [neg |-> n < 0, mag |-> to_digits(abs(n))]

\* sum of the digit products a[i] * b[j] with i + j = k + 1
RECURSIVE column_sum(_, _, _, _)
column_sum(a, b, k, i) ==
  IF i > Len(a) THEN 0
  ELSE (IF (k + 1 - i) \in 1..Len(b) THEN a[i] * b[k + 1 - i] ELSE 0)
       + column_sum(a, b, k, i + 1)

RECURSIVE mul_digits(_, _, _, _)
mul_digits(a, b, k, carry) ==
  IF k > Len(a) + Len(b) THEN <<>>
  ELSE LET t == column_sum(a, b, k, 1) + carry
       IN  <<t % 256>> \o mul_digits(a, b, k + 1, t \div 256)

RECURSIVE trim(_)
trim(d) ==
  IF Len(d) > 0 /\ d[Len(d)] = 0 THEN trim(SubSeq(d, 1, Len(d) - 1)) ELSE d

\* x * y on Python integers
py_mul(x, y) ==
  LET mag == trim(mul_digits(to_digits(abs(x)), to_digits(abs(y)), 1, 0))
  IN  [neg |-> (Len(mag) > 0) /\ ((x < 0) # (y < 0)), mag |-> mag]

(***************************************************************************)
(* struct.pack("<4sI4s4sIHHIIHH4sI", ...)                                  *)
(***************************************************************************)
\* width in bytes of the format codes 'I' and 'H'
WidthI == 4
WidthH == 2

\* b"RIFF", b"WAVE", b"fmt ", b"data" as byte values
RIFF == <<82, 73, 70, 70>>
WAVE == <<87, 65, 86, 69>>
FMT  == <<102, 109, 116, 32>>
DATA == <<100, 97, 116, 97>>

\* an unsigned field takes 0 <= v < 256^w; struct.error otherwise
in_range(v, w) == ~v.neg /\ Len(v.mag) <= w

\* one unsigned little-endian field of w bytes
pack_uint(v, w) ==
  IF in_range(v, w)
  THEN [exc |-> "none",
        bytes |-> [i \in 1..w |-> IF i <= Len(v.mag) THEN v.mag[i] ELSE 0]]
  ELSE [exc |-> "struct.error", bytes |-> <<>>]

RECURSIVE pack_fields(_)
pack_fields(fields) ==
  IF Len(fields) = 0 THEN [exc |-> "none", bytes |-> <<>>]
  ELSE LET head == fields[1]
           rest == pack_fields(Tail(fields))
       IN  IF head.exc # "none" THEN [exc |-> head.exc, bytes |-> <<>>]
           ELSE IF rest.exc # "none" THEN rest
           ELSE [exc |-> "none", bytes |-> head.bytes \o rest.bytes]

pack_bytes(b) == [exc |-> "none", bytes |-> b]

(***************************************************************************)
(* convert_to_wav                                                          *)
(***************************************************************************)
NumChannels == 1
FmtChunkSize == 16
PcmFormat == 1
RiffOverhead == 36
BitsPerByte == 8

\* int(value or default): 0 is falsy and takes the default
or_default(value, default) == IF value = 0 THEN default ELSE value

\* bits_per_sample // 8
bytes_per_sample_of(bits_per_sample) == bits_per_sample \div BitsPerByte

\* the header for given parameters and payload length (lines 45-66)
wav_header(bits_per_sample, sample_rate, data_size) ==
  LET num_channels == NumChannels
      block_align  == num_channels * bytes_per_sample_of(bits_per_sample)
      byte_rate    == py_mul(sample_rate, block_align)
      chunk_size   == RiffOverhead + data_size
  IN  pack_fields(<<
        pack_bytes(RIFF),
        pack_uint(PyInt(chunk_size), WidthI),
        pack_bytes(WAVE),
        pack_bytes(FMT),
        pack_uint(PyInt(FmtChunkSize), WidthI),
        pack_uint(PyInt(PcmFormat), WidthH),
        pack_uint(PyInt(num_channels), WidthH),
        pack_uint(PyInt(sample_rate), WidthI),
        pack_uint(byte_rate, WidthI),
        pack_uint(PyInt(block_align), WidthH),
        pack_uint(PyInt(bits_per_sample), WidthH),
        pack_bytes(DATA),
        pack_uint(PyInt(data_size), WidthI) >>)

\* variant: the payload is left out
header_only(header, payload) == header
\* return header + audio_data
header_plus(header, payload) == header \o payload

\* lines 43-67: everything after `params = parse_audio_mime_type(mime_type)`
wav_from_params(audio_data_, params_) ==
  LET header == wav_header(or_default(params_.bits_per_sample, DefaultBits),
                           or_default(params_.rate, DefaultRate),
                           Len(audio_data_))
  IN  IF params_.exc # "none" THEN [exc |-> params_.exc, bytes |-> <<>>]
      ELSE IF header.exc # "none" THEN [exc |-> header.exc, bytes |-> <<>>]
      ELSE [exc |-> "none", bytes |-> header_plus(header.bytes, audio_data_)]

convert_to_wav(audio_data_, mime_type_) ==
  wav_from_params(audio_data_, parse_audio_mime_type(mime_type_))

(***************************************************************************)
(* Inputs.  The segment pool holds well-formed and malformed parameters    *)
(* of both kinds; every integer in it is below 2^31.                       *)
(***************************************************************************)
BitsValues == {24, 12, 0, -8, 65536}
RateValues == {48000, 0, 2000000000}

SegRateUpper == <<" ", "R", "A", "T", "E", "=", "8", "0", "0", "0">>
SegLowerL == <<"a", "u", "d", "i", "o", "/", "l", "2", "4">>
SegUpperAudio == <<"A", "U", "D", "I", "O", "/", "L", "2", "4">>
SegLxx == <<"a", "u", "d", "i", "o", "/", "L", "x", "x">>
SegRateOops == <<"r", "a", "t", "e", "=", "o", "o", "p", "s">>
SegCodec == <<"c", "o", "d", "e", "c", "=", "p", "c", "m">>

BitsSegment(n) == BitsPrefix \o str(n)
RateSegment(r) == RatePrefix \o str(r)

Segments ==
  {BitsSegment(n) : n \in BitsValues} \cup {RateSegment(r) : r \in RateValues}
    \cup {SegRateUpper, SegLowerL, SegUpperAudio, SegLxx, SegRateOops, SegCodec}

SegmentLists == UNION {[1..n -> Segments] : n \in 0..MaxSegs}

MimeInputs == {None} \cup {Str(join(segs, ";")) : segs \in SegmentLists}

PayloadBytes == {0, 255}
Payloads == UNION {[1..n -> PayloadBytes] : n \in 0..MaxPayload}

(***************************************************************************)
(* State.  mime_type, audio_data, params, wav: the inputs and results of   *)
(* single calls.  call, pc, frame, ret: calls running in threads, one per  *)
(* thread, executed statement by statement on the locals of their frame.   *)
(* api_key, tts, arrived, files, result: one call of text_to_speech, the   *)
(* chunks its stream has delivered and the target directory.  plan_req,    *)
(* plan_calls, plan_resp: one request to /generate_speech_plan.            *)
(***************************************************************************)
VARIABLES mime_type, audio_data, params, wav, call, pc, frame, ret,
          api_key, tts, arrived, files, result,
          plan_req, plan_calls, plan_resp

single_vars == <<mime_type, audio_data, params, wav>>
thread_vars == <<call, pc, frame, ret>>
tts_vars == <<api_key, tts, arrived, files, result>>
plan_vars == <<plan_req, plan_calls, plan_resp>>
vars == <<mime_type, audio_data, params, wav, call, pc, frame, ret,
          api_key, tts, arrived, files, result,
          plan_req, plan_calls, plan_resp>>

Threads == 1..NumThreads

Pending == "pending"
NoParams == [bits_per_sample |-> 0, rate |-> 0, exc |-> Pending]
NoWav == [exc |-> Pending, bytes |-> <<>>]
NoRet == [exc |-> Pending]
NoCall == [op |-> "none", mime_type |-> None, audio_data |-> <<>>]
NoFrame == [parts |-> <<>>, i |-> 0, p |-> <<>>,
            bits_per_sample |-> 0, rate |-> 0, exc |-> "none"]

SingleIdle ==
  /\ mime_type = None
  /\ audio_data = <<>>
  /\ params = NoParams
  /\ wav = NoWav

ThreadsIdle ==
  /\ call = [t \in Threads |-> NoCall]
  /\ pc = [t \in Threads |-> "idle"]
  /\ frame = [t \in Threads |-> NoFrame]
  /\ ret = [t \in Threads |-> NoRet]

NoLocals == [pc |-> "idle", contacted |-> FALSE, audio_chunks |-> <<>>,
             mime_type |-> None, raw |-> <<>>, ext |-> <<>>, payload |-> <<>>,
             wraps |-> 0]
NoResult == [exc |-> Pending, success |-> FALSE, message |-> "", filename |-> None]

TtsIdle ==
  /\ api_key = FALSE
  /\ tts = NoLocals
  /\ arrived = <<>>
  /\ files = {}
  /\ result = NoResult

NoRequest == [child_age |-> 0, delay_level |-> <<>>, plan_duration_weeks |-> 0]
NoResponse == [status_code |-> 0, success |-> FALSE, message |-> Pending]

PlanIdle ==
  /\ plan_req = NoRequest
  /\ plan_calls = <<>>
  /\ plan_resp = NoResponse

(***************************************************************************)
(* Single calls: one call of one of the two functions.  The MIME string is *)
(* drawn in Init; convert_to_wav is handed a payload when it is called.    *)
(***************************************************************************)
Init ==
  /\ mime_type \in MimeInputs
  /\ audio_data = <<>>
  /\ params = NoParams
  /\ wav = NoWav
  /\ ThreadsIdle
  /\ TtsIdle
  /\ PlanIdle

CallParse ==
  /\ params.exc = Pending
  /\ wav.exc = Pending
  /\ params' = parse_audio_mime_type(mime_type)
  /\ UNCHANGED <<mime_type, audio_data, wav>>
  /\ UNCHANGED <<thread_vars, tts_vars, plan_vars>>

CallConvert ==
  /\ params.exc = Pending
  /\ wav.exc = Pending
  /\ \E payload \in Payloads :
       /\ audio_data' = payload
       /\ wav' = convert_to_wav(payload, mime_type)
  /\ UNCHANGED <<mime_type, params>>
  /\ UNCHANGED <<thread_vars, tts_vars, plan_vars>>

Next == CallParse \/ CallConvert

Spec == Init /\ [][Next]_vars

(***************************************************************************)
(* Concurrent calls.  Every thread makes one call to parse_audio_mime_type *)
(* or convert_to_wav; the scheduler may switch threads between any two     *)
(* statements.  The locals of a call live in the frame of that call.       *)
(***************************************************************************)
ThreadMimes ==
  { None,
    Str(join(<<BitsSegment(24), RateSegment(48000)>>, ";")),
    Str(join(<<SegRateOops, BitsSegment(12)>>, ";")) }

ThreadPayload == <<0, 255>>

ThreadCalls ==
  {[op |-> "parse", mime_type |-> m, audio_data |-> <<>>] : m \in ThreadMimes}
    \cup {[op |-> "convert", mime_type |-> m, audio_data |-> ThreadPayload] :
            m \in ThreadMimes}

\* variant: module-level variables, one set for all calls
frame_shared(t) == 1
\* the frame holding the locals of the call made by thread t
frame_of(t) == t

Locals(t) == frame[frame_of(t)]

InitThreads ==
  /\ SingleIdle
  /\ TtsIdle
  /\ PlanIdle
  /\ call \in [Threads -> ThreadCalls]
  /\ pc = [t \in Threads |-> "start"]
  /\ frame = [t \in Threads |-> NoFrame]
  /\ ret = [t \in Threads |-> NoRet]

\* lines 23-25: the defaults and the list of trimmed segments
ParseStart(t) ==
  /\ pc[t] = "start"
  /\ frame' = [frame EXCEPT ![frame_of(t)] =
                 [parts |-> mime_parts(call[t].mime_type), i |-> 0, p |-> <<>>,
                  bits_per_sample |-> parse_locals.bits_per_sample,
                  rate |-> parse_locals.rate, exc |-> parse_locals.exc]]
  /\ pc' = [pc EXCEPT ![t] = "for"]
  /\ UNCHANGED <<call, ret>>
  /\ UNCHANGED <<single_vars, tts_vars, plan_vars>>

\* line 26: the next segment, or the end of the loop
ForNext(t) ==
  /\ pc[t] = "for"
  /\ IF Locals(t).i < Len(Locals(t).parts)
     THEN /\ frame' = [frame EXCEPT ![frame_of(t)] =
                         [Locals(t) EXCEPT !.i = @ + 1,
                                           !.p = Locals(t).parts[Locals(t).i + 1]]]
          /\ pc' = [pc EXCEPT ![t] = "rate"]
     ELSE /\ frame' = frame
          /\ pc' = [pc EXCEPT ![t] = "return"]
  /\ UNCHANGED <<call, ret>>
  /\ UNCHANGED <<single_vars, tts_vars, plan_vars>>

\* lines 27-31
RateStep(t) ==
  /\ pc[t] = "rate"
  /\ frame' = [frame EXCEPT ![frame_of(t)] = rate_branch(Locals(t), Locals(t).p)]
  /\ pc' = [pc EXCEPT ![t] = "bits"]
  /\ UNCHANGED <<call, ret>>
  /\ UNCHANGED <<single_vars, tts_vars, plan_vars>>

\* lines 32-36
BitsStep(t) ==
  /\ pc[t] = "bits"
  /\ frame' = [frame EXCEPT ![frame_of(t)] =
                 IF Locals(t).exc # "none" THEN Locals(t)
                 ELSE bits_branch(Locals(t), Locals(t).p)]
  /\ pc' = [pc EXCEPT ![t] =
              IF frame'[frame_of(t)].exc # "none" THEN "return" ELSE "for"]
  /\ UNCHANGED <<call, ret>>
  /\ UNCHANGED <<single_vars, tts_vars, plan_vars>>

\* the value parse_audio_mime_type hands back from the locals (line 37)
parse_result(f) ==
  [bits_per_sample |-> f.bits_per_sample, rate |-> f.rate, exc |-> f.exc]

\* line 37 for a direct call: the caller has the dict
ParseReturn(t) ==
  /\ pc[t] = "return"
  /\ call[t].op = "parse"
  /\ ret' = [ret EXCEPT ![t] = parse_result(Locals(t))]
  /\ pc' = [pc EXCEPT ![t] = "done"]
  /\ UNCHANGED <<call, frame>>
  /\ UNCHANGED <<single_vars, tts_vars, plan_vars>>

\* lines 42-67: convert_to_wav takes the dict and builds header + payload
ConvertReturn(t) ==
  /\ pc[t] = "return"
  /\ call[t].op = "convert"
  /\ ret' = [ret EXCEPT ![t] =
               wav_from_params(call[t].audio_data, parse_result(Locals(t)))]
  /\ pc' = [pc EXCEPT ![t] = "done"]
  /\ UNCHANGED <<call, frame>>
  /\ UNCHANGED <<single_vars, tts_vars, plan_vars>>

NextThreads ==
  \E t \in Threads :
    \/ ParseStart(t)
    \/ ForNext(t)
    \/ RateStep(t)
    \/ BitsStep(t)
    \/ ParseReturn(t)
    \/ ConvertReturn(t)

SpecThreads == InitThreads /\ [][NextThreads]_vars

(***************************************************************************)
(* Properties of single calls (checked under Spec).                        *)
(***************************************************************************)
HeaderLen == 44

Parsed == params.exc # Pending
Converted == wav.exc # Pending
Returned(r) == r.exc = "none"

\* the ';'-separated segments of the input as the caller wrote them
RawSegments == split(or_empty(mime_type), ";")

\* a segment is of the rate kind / of the bits kind
IsRateSeg(seg) == startswith(lower(strip(seg)), RatePrefix)
IsBitsSeg(seg) == startswith(strip(seg), BitsPrefix)

\* the text after the prefix
RateText(seg) == SubSeq(strip(seg), Len(RatePrefix) + 1, Len(strip(seg)))
BitsText(seg) == SubSeq(strip(seg), Len(BitsPrefix) + 1, Len(strip(seg)))

ValidRateSeg(seg) == IsRateSeg(seg) /\ int(RateText(seg)).exc = "none"
ValidBitsSeg(seg) == IsBitsSeg(seg) /\ int(BitsText(seg)).exc = "none"

\* w little-endian bytes of an unbounded integer that fits them
le_bytes(v, w) == [i \in 1..w |-> IF i <= Len(v.mag) THEN v.mag[i] ELSE 0]

\* C1 as claimed: every call emits the header whose fields are those of the
\* parsed B and R: RIFF, 36+D, WAVE, 'fmt ', 16, 1, 1, R, R*block_align,
\* block_align = B div 8, B, 'data', D, little-endian.
ClaimedHeader(B, R, D) ==
  RIFF \o le_bytes(PyInt(36 + D), 4) \o WAVE \o FMT
    \o le_bytes(PyInt(16), 4) \o le_bytes(PyInt(1), 2) \o le_bytes(PyInt(1), 2)
    \o le_bytes(PyInt(R), 4) \o le_bytes(py_mul(R, B \div 8), 4)
    \o le_bytes(PyInt(B \div 8), 2) \o le_bytes(PyInt(B), 2)
    \o DATA \o le_bytes(PyInt(D), 4)

C1_HeaderFieldsForEveryMime ==
  Converted =>
    LET p == parse_audio_mime_type(mime_type)
    IN  /\ Returned(wav)
        /\ Len(wav.bytes) >= HeaderLen
        /\ SubSeq(wav.bytes, 1, HeaderLen)
             = ClaimedHeader(p.bits_per_sample, p.rate, Len(audio_data))

\* C2: whenever convert_to_wav returns, its output is 44 header bytes
\* followed by the payload unchanged: the length is 44 + len(payload) and
\* the bytes from offset 44 on equal the payload position by position.
C2_PayloadPreserved ==
  (Converted /\ Returned(wav)) =>
    /\ Len(wav.bytes) = HeaderLen + Len(audio_data)
    /\ \A i \in 1..Len(audio_data) : wav.bytes[HeaderLen + i] = audio_data[i]
    /\ SubSeq(wav.bytes, 1, 4) = RIFF

C2_Witness ==
  Converted /\ Returned(wav) /\ audio_data = <<255, 255>>

\* C3: None, the empty string and a string none of whose segments is of
\* the rate or the bits kind parse to 16 bits, 24000 Hz.
C3_Defaults ==
  (Parsed /\ \A i \in 1..Len(RawSegments) :
               ~IsRateSeg(RawSegments[i]) /\ ~IsBitsSeg(RawSegments[i])) =>
    /\ Returned(params)
    /\ params.bits_per_sample = 16
    /\ params.rate = 24000

C3_Witness ==
  Parsed /\ mime_type = None /\ params.bits_per_sample = 16 /\ params.rate = 24000

\* every ordering of a sequence
Orderings(seq) ==
  {[i \in 1..Len(seq) |-> seq[f[i]]] :
     f \in {g \in [1..Len(seq) -> 1..Len(seq)] :
              \A i, j \in 1..Len(seq) : g[i] = g[j] => i = j}}

Count(seq, P(_)) == Cardinality({i \in 1..Len(seq) : P(seq[i])})

\* C4: 'audio/L<N>;rate=<R>' and 'rate=<R>;audio/L<N>' both parse to N and
\* R, and permuting the segments of a string with at most one segment of
\* each kind does not change the result.
C4_OrderIndependent ==
  Parsed =>
    /\ \A n \in BitsValues, r \in RateValues :
         mime_type \in {Str(join(<<BitsSegment(n), RateSegment(r)>>, ";")),
                        Str(join(<<RateSegment(r), BitsSegment(n)>>, ";"))}
           => /\ Returned(params)
              /\ params.bits_per_sample = n
              /\ params.rate = r
    /\ (Count(RawSegments, IsRateSeg) <= 1 /\ Count(RawSegments, IsBitsSeg) <= 1)
         => \A perm \in Orderings(RawSegments) :
              parse_audio_mime_type(Str(join(perm, ";"))) = params

C4_Witness ==
  /\ Parsed
  /\ mime_type = Str(join(<<RateSegment(48000), BitsSegment(24)>>, ";"))
  /\ params.bits_per_sample = 24
  /\ params.rate = 48000

\* C5: the parser never raises; a segment whose value is no integer is
\* skipped, and when no segment of either kind has an integer value the
\* result is 16 and 24000.
C5_ParserNeverRaises ==
  /\ params.exc \in {Pending, "none"}
  /\ (Parsed /\ \A i \in 1..Len(RawSegments) :
                  ~ValidRateSeg(RawSegments[i]) /\ ~ValidBitsSeg(RawSegments[i]))
       => (params.bits_per_sample = 16 /\ params.rate = 24000)

C5_Witness ==
  /\ Parsed
  /\ mime_type = Str(join(<<SegLxx, SegRateOops>>, ";"))
  /\ Returned(params)
  /\ params.bits_per_sample = 16
  /\ params.rate = 24000

\* index of the last segment satisfying P, 0 when there is none
LastIndex(seq, P(_)) ==
  IF \E i \in 1..Len(seq) : P(seq[i])
  THEN CHOOSE i \in 1..Len(seq) : P(seq[i]) /\ \A j \in (i + 1)..Len(seq) : ~P(seq[j])
  ELSE 0

\* C6: each field ends as the value of the last segment of its kind that
\* parses (the default when there is none): an unparseable segment keeps
\* what an earlier one set, a failure in one field leaves the other alone,
\* and of several valid segments the last wins.
C6_FailureKeepsCurrent ==
  Parsed =>
    LET lr == LastIndex(RawSegments, ValidRateSeg)
        lb == LastIndex(RawSegments, ValidBitsSeg)
    IN  /\ params.rate = IF lr = 0 THEN 24000 ELSE int(RateText(RawSegments[lr])).val
        /\ params.bits_per_sample
             = IF lb = 0 THEN 16 ELSE int(BitsText(RawSegments[lb])).val

C6_Witness ==
  /\ Parsed
  /\ mime_type = Str(join(<<RateSegment(48000), SegRateOops>>, ";"))
  /\ params.rate = 48000
  /\ params.bits_per_sample = 16

MatchesEither(seg) == IsRateSeg(seg) \/ IsBitsSeg(seg)

\* C7: matching is on trimmed segments, ignores case for 'rate=' and
\* respects it for 'audio/L': ' RATE=8000' as the last rate segment sets
\* the rate to 8000, and dropping every segment that matches neither prefix
\* ('AUDIO/L24' and 'audio/l24' among them) leaves the result unchanged.
C7_PrefixMatching ==
  Parsed =>
    /\ (Len(RawSegments) > 0 /\ RawSegments[Len(RawSegments)] = SegRateUpper)
         => params.rate = 8000
    /\ ~MatchesEither(SegUpperAudio) /\ ~MatchesEither(SegLowerL)
    /\ params = parse_audio_mime_type(Str(join(SelectSeq(RawSegments, MatchesEither), ";")))

C7_Witness ==
  /\ Parsed
  /\ mime_type = Str(join(<<SegLowerL, SegRateUpper>>, ";"))
  /\ params.rate = 8000
  /\ params.bits_per_sample = 16

\* C8 as claimed: convert_to_wav never raises, whatever the MIME string
\* parses to.
C8_EncoderNeverRaises == wav.exc \in {Pending, "none"}

(***************************************************************************)
(* Properties of concurrent calls (checked under SpecThreads).             *)
(***************************************************************************)
Done(t) == pc[t] = "done"

\* the result of the call when nothing else runs
RunAlone(c) ==
  IF c.op = "parse" THEN parse_audio_mime_type(c.mime_type)
  ELSE convert_to_wav(c.audio_data, c.mime_type)

C10_ThreadSafe ==
  /\ [](\A t \in Threads : Done(t) => ret[t] = RunAlone(call[t]))
  /\ [][\A t \in Threads :
          pc'[t] = pc[t] => (frame'[t] = frame[t] /\ ret'[t] = ret[t])]_vars

C10_Witness ==
  /\ \A t \in Threads : Done(t)
  /\ \E t, u \in Threads :
       /\ call[t].op = "parse" /\ call[u].op = "convert"
       /\ call[t].mime_type # call[u].mime_type
       /\ ret[t] = RunAlone(call[t])
       /\ ret[u] = RunAlone(call[u])

(***************************************************************************)
(* The header against the parser (checked under Spec).                     *)
(***************************************************************************)
\* C13 as claimed: whenever convert_to_wav returns, the sample rate field
\* (bytes 24..27) and the bits_per_sample field (bytes 34..35) of the header
\* hold exactly the values parse_audio_mime_type returns for the same MIME
\* string, 0 included.
C13_HeaderCarriesParsedValues ==
  (Converted /\ Returned(wav)) =>
    LET p == parse_audio_mime_type(mime_type)
    IN  /\ SubSeq(wav.bytes, 25, 28) = le_bytes(PyInt(p.rate), 4)
        /\ SubSeq(wav.bytes, 35, 36) = le_bytes(PyInt(p.bits_per_sample), 2)

(***************************************************************************)
(* text_to_speech.  The provider's stream delivers chunks; a chunk has     *)
(* candidates, a candidate may have content, content has parts, and a part *)
(* may carry inline data (bytes and a MIME type).                          *)
(***************************************************************************)
\* most chunks a stream delivers
MaxChunks == 2

TextPart == [inline |-> FALSE, data |-> <<>>, mime_type |-> None]
AudioPart(data, m) == [inline |-> TRUE, data |-> data, mime_type |-> m]
NoContent == [has_content |-> FALSE, parts |-> <<>>]
Content(parts) == [has_content |-> TRUE, parts |-> parts]
ChunkOf(parts) == [candidates |-> <<Content(parts)>>]

WavExt == <<".", "w", "a", "v">>
Mp3Ext == <<".", "m", "p", "3">>
WavMimePrefix == <<"a", "u", "d", "i", "o", "/", "w", "a", "v">>
MimeWavUpper == <<"A", "u", "d", "i", "o", "/", "W", "A", "V">>
MimeXWav == <<"a", "u", "d", "i", "o", "/", "x", "-", "w", "a", "v">>
MimeMpeg == <<"a", "u", "d", "i", "o", "/", "m", "p", "e", "g">>
DefaultMime == <<"a", "u", "d", "i", "o", "/", "L", "1", "6", ";",
                 "r", "a", "t", "e", "=", "2", "4", "0", "0", "0">>

ChunkData == {<<0>>, <<255>>}
ChunkMimes ==
  { None, Str(<<>>), Str(WavMimePrefix), Str(MimeWavUpper), Str(MimeXWav),
    Str(MimeMpeg), Str(join(<<BitsSegment(24), RateSegment(48000)>>, ";")),
    Str(BitsSegment(-8)) }

\* chunks the loop passes over: no candidates, a candidate without content,
\* content without parts, a first part that is text (audio only in the
\* second part, or only in the second candidate), inline data of length 0
SkippedChunks ==
  { [candidates |-> <<>>],
    [candidates |-> <<NoContent>>],
    [candidates |-> <<NoContent, Content(<<AudioPart(<<0>>, Str(MimeMpeg))>>)>>],
    ChunkOf(<<>>),
    ChunkOf(<<TextPart, AudioPart(<<0>>, Str(MimeMpeg))>>),
    ChunkOf(<<AudioPart(<<>>, Str(MimeMpeg))>>) }

AudioChunks == {ChunkOf(<<AudioPart(d, m)>>) : d \in ChunkData, m \in ChunkMimes}

Chunks == SkippedChunks \cup AudioChunks

\* uuid.uuid4().hex, shortened
UuidHexes == {<<"0", "a">>, <<"f", "f">>}

\* the target directory before the call: one file of an earlier call
InitialFiles == {[name |-> <<"o", "l", "d", ".", "w", "a", "v">>, bytes |-> <<1>>]}

\* `x or y` on Optional[str]: None and "" are falsy
is_truthy(m) == ~m.none /\ Len(m.str) > 0
str_or(m, other) == IF is_truthy(m) THEN m ELSE other

\* variant: inline_data present is enough
carries_inline(chunk) ==
  /\ Len(chunk.candidates) > 0
  /\ chunk.candidates[1].has_content
  /\ Len(chunk.candidates[1].parts) > 0
  /\ chunk.candidates[1].parts[1].inline
\* lines 107-113: the chunk is taken when its first candidate has content
\* with parts and parts[0] has inline_data with data
carries_audio(chunk) ==
  /\ Len(chunk.candidates) > 0
  /\ chunk.candidates[1].has_content
  /\ Len(chunk.candidates[1].parts) > 0
  /\ chunk.candidates[1].parts[1].inline
  /\ Len(chunk.candidates[1].parts[1].data) > 0

\* lines 107-115: one iteration of the stream loop on the locals
take_chunk(locals, chunk) ==
  IF carries_audio(chunk)
  THEN LET part0 == chunk.candidates[1].parts[1]
       IN  [locals EXCEPT !.mime_type = str_or(part0.mime_type, locals.mime_type),
                          !.audio_chunks = Append(@, part0.data)]
  ELSE locals

\* b"".join(audio_chunks)
RECURSIVE bytes_join(_)
bytes_join(chunks) ==
  IF Len(chunks) = 0 THEN <<>> ELSE chunks[1] \o bytes_join(Tail(chunks))

\* mimetypes.guess_extension on the type in lower case, with the standard
\* library's table for the types that occur here; None for every other type
\* ('audio/wav' and the raw-PCM types among them)
guess_extension(type) ==
  IF lower(type) = MimeXWav THEN Str(WavExt)
  ELSE IF lower(type) = MimeMpeg THEN Str(Mp3Ext)
  ELSE None

\* variant: no fallback extension
out_ext_no_default(m) == or_empty(guess_extension(or_empty(m)))
\* line 123: mimetypes.guess_extension(mime_type or "") or ".wav"
out_ext(m) == str_or(guess_extension(or_empty(m)), Str(WavExt)).str

\* variant: every extension is treated as '.wav'
is_wav_ext_always(ext) == TRUE
\* line 124: ext.lower() == ".wav"
is_wav_ext(ext) == lower(ext) = WavExt

\* variant: the prefix compared as reported
already_wav_exact(m) == is_truthy(m) /\ startswith(m.str, WavMimePrefix)
\* line 125: mime_type and mime_type.lower().startswith("audio/wav")
already_wav(m) == is_truthy(m) /\ startswith(lower(m.str), WavMimePrefix)

\* lines 124-128: the bytes to save, the number of calls to convert_to_wav
\* made for them, and the exception if that call raised
choose_payload(raw, m, ext) ==
  IF is_wav_ext(ext) /\ ~already_wav(m)
  THEN LET w == convert_to_wav(raw, str_or(m, Str(DefaultMime)))
       IN  [exc |-> w.exc, payload |-> w.bytes, wraps |-> 1]
  ELSE [exc |-> "none", payload |-> raw, wraps |-> 0]

\* line 132: f"tts_{uuid.uuid4().hex}{ext}"
file_name(hex, ext) == <<"t", "t", "s", "_">> \o hex \o ext

\* open(out_path, "wb") and f.write: the file of that name holds these bytes
write_file(dir, name, bytes) ==
  {f \in dir : f.name # name} \cup {[name |-> name, bytes |-> bytes]}

\* variant: a handler for file errors only
except_OSError(exc) == exc = "OSError"
\* line 142: `except Exception as e` around the whole body
except_any(exc) == exc \in {"OSError", "struct.error", "APIError", "ValueError"}

Failure(message) ==
  [exc |-> "none", success |-> FALSE, message |-> message, filename |-> None]

\* the call's outcome when exception exc is raised inside the try block
Raised(exc) ==
  IF except_any(exc) THEN Failure("Error during TTS")
  ELSE [exc |-> exc, success |-> FALSE, message |-> "", filename |-> None]

\* variant: the key is not looked at
key_missing_ignored(key) == FALSE
\* line 78: `if not api_key`
key_missing(key) == ~key

InitTts ==
  /\ SingleIdle
  /\ ThreadsIdle
  /\ PlanIdle
  /\ api_key \in BOOLEAN
  /\ tts = [NoLocals EXCEPT !.pc = "start"]
  /\ arrived = <<>>
  /\ files = InitialFiles
  /\ result = NoResult

Others == <<single_vars, thread_vars, plan_vars>>

\* lines 76-79
TtsMissingKey ==
  /\ tts.pc = "start"
  /\ key_missing(api_key)
  /\ result' = Failure("Missing GOOGLE_API_KEY in environment.")
  /\ tts' = [tts EXCEPT !.pc = "done"]
  /\ UNCHANGED <<api_key, arrived, files, Others>>

\* lines 81-99 raising: the client or the request cannot be built
TtsSetupError ==
  /\ tts.pc = "start"
  /\ ~key_missing(api_key)
  /\ result' = Raised("ValueError")
  /\ tts' = [tts EXCEPT !.pc = "done"]
  /\ UNCHANGED <<api_key, arrived, files, Others>>

\* lines 81-106: the request goes to the provider
TtsOpenStream ==
  /\ tts.pc = "start"
  /\ ~key_missing(api_key)
  /\ tts' = [tts EXCEPT !.pc = "stream", !.contacted = TRUE]
  /\ UNCHANGED <<api_key, arrived, files, result, Others>>

\* lines 104-115: the stream delivers a chunk
TtsChunk ==
  /\ tts.pc = "stream"
  /\ Len(arrived) < MaxChunks
  /\ \E chunk \in Chunks :
       /\ arrived' = Append(arrived, chunk)
       /\ tts' = take_chunk(tts, chunk)
  /\ UNCHANGED <<api_key, files, result, Others>>

\* line 104 raising: the stream breaks
TtsStreamError ==
  /\ tts.pc = "stream"
  /\ result' = Raised("APIError")
  /\ tts' = [tts EXCEPT !.pc = "done"]
  /\ UNCHANGED <<api_key, arrived, files, Others>>

\* lines 117-120: the stream ends
TtsStreamEnd ==
  /\ tts.pc = "stream"
  /\ IF Len(tts.audio_chunks) = 0
     THEN /\ result' = Failure("No audio data received from model.")
          /\ tts' = [tts EXCEPT !.pc = "done"]
     ELSE /\ result' = result
          /\ tts' = [tts EXCEPT !.pc = "decide",
                                !.raw = bytes_join(tts.audio_chunks)]
  /\ UNCHANGED <<api_key, arrived, files, Others>>

\* lines 122-128
TtsDecide ==
  /\ tts.pc = "decide"
  /\ LET ext    == out_ext(tts.mime_type)
         chosen == choose_payload(tts.raw, tts.mime_type, ext)
     IN  IF chosen.exc = "none"
         THEN /\ tts' = [tts EXCEPT !.pc = "save", !.ext = ext,
                                    !.payload = chosen.payload,
                                    !.wraps = @ + chosen.wraps]
              /\ result' = result
         ELSE /\ tts' = [tts EXCEPT !.pc = "done", !.ext = ext,
                                    !.wraps = @ + chosen.wraps]
              /\ result' = Raised(chosen.exc)
  /\ UNCHANGED <<api_key, arrived, files, Others>>

\* lines 130-141: the file is written and its name returned
TtsSave ==
  /\ tts.pc = "save"
  /\ \E hex \in UuidHexes :
       /\ files' = write_file(files, file_name(hex, tts.ext), tts.payload)
       /\ result' = [exc |-> "none", success |-> TRUE,
                     message |-> "Speech synthesized successfully.",
                     filename |-> Str(file_name(hex, tts.ext))]
  /\ tts' = [tts EXCEPT !.pc = "done"]
  /\ UNCHANGED <<api_key, arrived, Others>>

\* lines 130-135 raising: makedirs or open fails (no file), or the write
\* fails after the file was created (none or all but one of the bytes in it)
TtsSaveError ==
  /\ tts.pc = "save"
  /\ \/ files' = files
     \/ \E hex \in UuidHexes, n \in {0, Len(tts.payload) - 1} :
          files' = write_file(files, file_name(hex, tts.ext),
                              SubSeq(tts.payload, 1, n))
  /\ result' = Raised("OSError")
  /\ tts' = [tts EXCEPT !.pc = "done"]
  /\ UNCHANGED <<api_key, arrived, Others>>

NextTts ==
  \/ TtsMissingKey
  \/ TtsSetupError
  \/ TtsOpenStream
  \/ TtsChunk
  \/ TtsStreamError
  \/ TtsStreamEnd
  \/ TtsDecide
  \/ TtsSave
  \/ TtsSaveError

SpecTts == InitTts /\ [][NextTts]_vars

(***************************************************************************)
(* Properties of text_to_speech (SpecTts).                                 *)
(***************************************************************************)
FirstPart(chunk) == chunk.candidates[1].parts[1]

\* the first candidate's first part carries non-empty inline data
FirstPartAudio(chunk) ==
  /\ chunk.candidates # <<>>
  /\ chunk.candidates[1].has_content
  /\ chunk.candidates[1].parts # <<>>
  /\ FirstPart(chunk).inline
  /\ FirstPart(chunk).data # <<>>

Accepted == SelectSeq(arrived, FirstPartAudio)

AcceptedData == [i \in 1..Len(Accepted) |-> FirstPart(Accepted[i]).data]

Reporting == {i \in 1..Len(Accepted) : is_truthy(FirstPart(Accepted[i]).mime_type)}

LastReportedMime ==
  IF Reporting = {} THEN None
  ELSE FirstPart(Accepted[CHOOSE i \in Reporting : \A j \in Reporting : j <= i]).mime_type

\* the stream has ended with audio in hand
Collected == tts.pc \in {"decide", "save"} \/ (tts.pc = "done" /\ tts.ext # <<>>)

\* lines 123-128 have run
Decided == tts.ext # <<>>

\* C17: at every point of the call the accumulated audio is the data of the
\* arrived chunks whose first candidate's first part carries non-empty inline
\* data, in arrival order (so every other chunk changed nothing), the MIME type
\* is the last non-empty one such a chunk reported, and once the stream has
\* ended the raw payload is the concatenation of that data in arrival order.
C17_StreamConsumption ==
  /\ tts.audio_chunks = AcceptedData
  /\ tts.mime_type = LastReportedMime
  /\ Collected => tts.raw = bytes_join(AcceptedData)

\* an accepted chunk reporting audio/x-wav, then a chunk whose inline data is
\* empty and reports audio/mpeg: the stream ended with the first one's values
C17_Witness ==
  /\ tts.pc = "decide"
  /\ Len(arrived) = 2
  /\ FirstPartAudio(arrived[1])
  /\ FirstPart(arrived[1]).mime_type = Str(MimeXWav)
  /\ arrived[2] = ChunkOf(<<AudioPart(<<>>, Str(MimeMpeg))>>)
  /\ tts.raw = FirstPart(arrived[1]).data

\* the reported MIME type starts, case-insensitively, with 'audio/wav'
StartsAudioWav(m) ==
  is_truthy(m) /\ SubSeq(lower(m.str), 1, Len(WavMimePrefix)) = WavMimePrefix

\* an extension other than '.wav' is guessed from the MIME type
GuessedOther(m) ==
  LET g == guess_extension(or_empty(m))
  IN  is_truthy(g) /\ lower(g.str) # WavExt

\* what convert_to_wav gives for the raw payload and the reported MIME type,
\* or 'audio/L16;rate=24000' when none was reported
Wrapped ==
  convert_to_wav(tts.raw, IF is_truthy(tts.mime_type) THEN tts.mime_type
                          ELSE Str(DefaultMime))

\* C11 as claimed: the payload chosen for saving is the raw bytes when the
\* MIME type starts with 'audio/wav', and in every other case the bytes
\* convert_to_wav returns for the reported (or default) MIME type.
C11_WrappedInEveryOtherCase ==
  tts.pc = "save" =>
    tts.payload = IF StartsAudioWav(tts.mime_type) THEN tts.raw ELSE Wrapped.bytes

\* C11 amended: the raw bytes pass through unchanged when the MIME type starts
\* (case-insensitively) with 'audio/wav' or an extension other than '.wav' is
\* guessed from it; in every other case the payload is what convert_to_wav
\* returns for the reported MIME type, or for 'audio/L16;rate=24000' when none
\* was reported, and when convert_to_wav raises the call ends as a failure
\* with no payload and no file.
C11_PassThroughOrWrap ==
  Decided =>
    IF StartsAudioWav(tts.mime_type) \/ GuessedOther(tts.mime_type)
    THEN tts.payload = tts.raw
    ELSE IF Wrapped.exc = "none"
    THEN tts.payload = Wrapped.bytes
    ELSE /\ tts.pc = "done"
         /\ tts.payload = <<>>
         /\ result = Failure("Error during TTS")
         /\ files = InitialFiles

\* no MIME type was reported and the raw bytes were wrapped for the default
C11_Witness ==
  /\ tts.pc = "save"
  /\ tts.mime_type = None
  /\ tts.payload = convert_to_wav(tts.raw, Str(DefaultMime)).bytes
  /\ tts.payload # tts.raw

\* C14: convert_to_wav is called (once) exactly when no extension other than
\* '.wav' is guessed from the MIME type and the MIME type does not start,
\* case-insensitively, with 'audio/wav'; when another extension is guessed the
\* raw bytes are the payload; and no call wraps twice: convert_to_wav runs at
\* most once and a wrapped payload is one 44-byte header and the raw bytes.
C14_WrapsIffWavExtension ==
  /\ tts.wraps <= 1
  /\ ~Decided => tts.wraps = 0
  /\ Decided =>
       /\ tts.wraps = 1 <=>
            ~GuessedOther(tts.mime_type) /\ ~StartsAudioWav(tts.mime_type)
       /\ GuessedOther(tts.mime_type) => tts.payload = tts.raw
       /\ (tts.wraps = 1 /\ tts.pc = "save") =>
            /\ Len(tts.payload) = HeaderLen + Len(tts.raw)
            /\ SubSeq(tts.payload, HeaderLen + 1, Len(tts.payload)) = tts.raw

\* audio/x-wav: '.wav' is guessed, the type does not start with audio/wav, and
\* the two collected bytes were wrapped once
C14_Witness ==
  /\ tts.pc = "save"
  /\ tts.mime_type = Str(MimeXWav)
  /\ tts.wraps = 1
  /\ Len(tts.raw) = 2
  /\ Len(tts.payload) = HeaderLen + 2

\* the extension derived from the MIME type, '.wav' when none can be inferred
DerivedExt(m) ==
  LET g == guess_extension(IF m.none THEN <<>> ELSE m.str)
  IN  IF g.none \/ g.str = <<>> THEN WavExt ELSE g.str

NewFiles == files \ InitialFiles

\* C12: after a successful call the target directory holds exactly one new
\* file, named 'tts_' + a random hex id + the extension derived from the MIME
\* type ('.wav' when none can be inferred or no MIME type was reported), its
\* bytes are the chosen payload, the files that were there are untouched, and
\* the returned filename is that file's name.
C12_SavedVerbatim ==
  result.success =>
    /\ InitialFiles \subseteq files
    /\ Cardinality(NewFiles) = 1
    /\ \E hex \in UuidHexes :
         LET name == <<"t", "t", "s", "_">> \o hex \o DerivedExt(tts.mime_type)
         IN  /\ NewFiles = {[name |-> name, bytes |-> tts.payload]}
             /\ result.filename = Str(name)

\* no MIME type was reported and the call saved tts_0a.wav
C12_Witness ==
  /\ result.success
  /\ tts.mime_type = None
  /\ result.filename = Str(<<"t", "t", "s", "_", "0", "a", ".", "w", "a", "v">>)
  /\ \E f \in files : f.name = result.filename.str /\ f.bytes = tts.payload

\* C15: no exception leaves text_to_speech: until it returns nothing has been
\* returned, and what it returns is a dict with a message where success =
\* False goes with filename None and success = True with the non-empty name of
\* a file in the target directory that holds the whole payload.
C15_NeverRaises ==
  /\ tts.pc # "done" => result = NoResult
  /\ tts.pc = "done" =>
       /\ result.exc = "none"
       /\ result.message # ""
       /\ ~result.success => result.filename = None
       /\ result.success =>
            /\ ~result.filename.none
            /\ result.filename.str # <<>>
            /\ \E f \in files :
                 f.name = result.filename.str /\ f.bytes = tts.payload

\* the write failed part-way: a file was left behind, the call returned failure
C15_Witness ==
  /\ tts.pc = "done"
  /\ result = Failure("Error during TTS")
  /\ \E f \in NewFiles : Len(f.bytes) = Len(tts.payload) - 1

\* C16: without GOOGLE_API_KEY the provider is never contacted and the call
\* returns the missing-key failure; when a stream has ended with no chunk
\* accepted the call returns a failure; in both cases the target directory
\* holds what it held before the call.
C16_EarlyFailuresWriteNothing ==
  /\ ~api_key =>
       /\ ~tts.contacted
       /\ files = InitialFiles
       /\ tts.pc = "done" => result = Failure("Missing GOOGLE_API_KEY in environment.")
  /\ (tts.pc = "done" /\ tts.contacted /\ Accepted = <<>>) =>
       /\ result \in {Failure("No audio data received from model."),
                      Failure("Error during TTS")}
       /\ files = InitialFiles

\* two chunks arrived, neither with audio in its first part, the stream ended
C16_Witness ==
  /\ tts.pc = "done"
  /\ tts.contacted
  /\ Len(arrived) = 2
  /\ Accepted = <<>>
  /\ result = Failure("No audio data received from model.")
  /\ files = InitialFiles

(***************************************************************************)
(* POST /generate_speech_plan (main.py) and the generator it calls.        *)
(***************************************************************************)
MinAge == 2
MaxAge == 8
MinWeeks == 1
MaxWeeks == 12
BadRequest == 400
Ok == 200
ServerError == 500

SlightDelay == <<"s", "l", "i", "g", "h", "t", " ", "d", "e", "l", "a", "y">>
MediumDelay == <<"m", "e", "d", "i", "u", "m", " ", "d", "e", "l", "a", "y">>
SevereDelay == <<"s", "e", "v", "e", "r", "e", " ", "d", "e", "l", "a", "y">>
DelayLevels == {SlightDelay, MediumDelay, SevereDelay}

AgeMessage == "Child age must be between 2 and 8 years"
DelayMessage == "Delay level must be 'slight delay', 'medium delay', or 'severe delay'"
WeeksMessage == "Plan duration must be between 1 and 12 weeks"
PlanMessage == "Speech therapy plan generated successfully."
PlanFailedMessage == "Failed to generate speech therapy plan"

\* form values of a request
Ages == {1, 2, 5, 8, 9}
Weeks == {0, 1, 4, 12, 13}
DelayInputs ==
  { SlightDelay, MediumDelay, SevereDelay,
    <<"S", "l", "i", "g", "h", "t", " ", "D", "e", "l", "a", "y">>,
    <<"S", "E", "V", "E", "R", "E", " ", "D", "E", "L", "A", "Y">>,
    <<" ", "s", "l", "i", "g", "h", "t", " ", "d", "e", "l", "a", "y">>,
    <<"m", "i", "l", "d", " ", "d", "e", "l", "a", "y">> }
Requests ==
  [child_age : Ages, delay_level : DelayInputs, plan_duration_weeks : Weeks]

\* line 71
age_invalid(req) == req.child_age < MinAge \/ req.child_age > MaxAge
\* line 77
delay_invalid(req) == lower(req.delay_level) \notin DelayLevels
\* line 83
weeks_invalid(req) ==
  req.plan_duration_weeks < MinWeeks \/ req.plan_duration_weeks > MaxWeeks

\* variant: delay_level handed on as received
delay_level_as_received(d) == d
\* line 91: delay_level=delay_level.lower()
delay_level_arg(d) == lower(d)

\* lines 89-97: the keyword arguments of the call
generator_args(req) ==
  [child_age |-> req.child_age, delay_level |-> delay_level_arg(req.delay_level),
   plan_duration_weeks |-> req.plan_duration_weeks]

\* generate_plan.py lines 106-218: the dict returned, from the try block or
\* from the handler of `except Exception`
generator_result(ok) ==
  [success |-> ok, message |-> IF ok THEN PlanMessage ELSE PlanFailedMessage]

Rejected(message) ==
  [status_code |-> BadRequest, success |-> FALSE, message |-> message]

InitPlan ==
  /\ SingleIdle
  /\ ThreadsIdle
  /\ TtsIdle
  /\ plan_req \in Requests
  /\ plan_calls = <<>>
  /\ plan_resp = NoResponse

\* lines 71-75
PlanRejectAge ==
  /\ plan_resp = NoResponse
  /\ age_invalid(plan_req)
  /\ plan_resp' = Rejected(AgeMessage)
  /\ UNCHANGED <<plan_req, plan_calls, single_vars, thread_vars, tts_vars>>

\* lines 77-81
PlanRejectDelay ==
  /\ plan_resp = NoResponse
  /\ ~age_invalid(plan_req)
  /\ delay_invalid(plan_req)
  /\ plan_resp' = Rejected(DelayMessage)
  /\ UNCHANGED <<plan_req, plan_calls, single_vars, thread_vars, tts_vars>>

\* lines 83-87
PlanRejectWeeks ==
  /\ plan_resp = NoResponse
  /\ ~age_invalid(plan_req)
  /\ ~delay_invalid(plan_req)
  /\ weeks_invalid(plan_req)
  /\ plan_resp' = Rejected(WeeksMessage)
  /\ UNCHANGED <<plan_req, plan_calls, single_vars, thread_vars, tts_vars>>

\* lines 89-100: the generator is called and its result answered
PlanGenerate ==
  /\ plan_resp = NoResponse
  /\ ~age_invalid(plan_req)
  /\ ~delay_invalid(plan_req)
  /\ ~weeks_invalid(plan_req)
  /\ plan_calls' = Append(plan_calls, generator_args(plan_req))
  /\ \E ok \in BOOLEAN :
       LET res == generator_result(ok)
       IN  plan_resp' = [status_code |-> IF res.success THEN Ok ELSE ServerError,
                         success |-> res.success, message |-> res.message]
  /\ UNCHANGED <<plan_req, single_vars, thread_vars, tts_vars>>

NextPlan ==
  \/ PlanRejectAge
  \/ PlanRejectDelay
  \/ PlanRejectWeeks
  \/ PlanGenerate

SpecPlan == InitPlan /\ [][NextPlan]_vars

Responded == plan_resp # NoResponse

AgeOutside == plan_req.child_age \notin 2..8
WeeksOutside == plan_req.plan_duration_weeks \notin 1..12
DelayUnknown ==
  \A d \in { <<"s", "l", "i", "g", "h", "t", " ", "d", "e", "l", "a", "y">>,
             <<"m", "e", "d", "i", "u", "m", " ", "d", "e", "l", "a", "y">>,
             <<"s", "e", "v", "e", "r", "e", " ", "d", "e", "l", "a", "y">> } :
    lower(plan_req.delay_level) # d

\* C18: the generator is not called before the answer, and the answer is 400
\* with the age message and no generator call when child_age is outside 2..8,
\* else 400 with the delay message and no call when delay_level in lower case
\* is not one of the three levels, else 400 with the duration message and no
\* call when plan_duration_weeks is outside 1..12, and otherwise the generator
\* was called exactly once with the lower-cased delay_level and the answer is
\* 200 when its result has success true and 500 when not.
C18_ValidationOrder ==
  /\ ~Responded => plan_calls = <<>>
  /\ Responded =>
       IF AgeOutside
       THEN plan_calls = <<>> /\ plan_resp.status_code = 400
            /\ plan_resp.message = "Child age must be between 2 and 8 years"
       ELSE IF DelayUnknown
       THEN plan_calls = <<>> /\ plan_resp.status_code = 400
            /\ plan_resp.message =
                 "Delay level must be 'slight delay', 'medium delay', or 'severe delay'"
       ELSE IF WeeksOutside
       THEN plan_calls = <<>> /\ plan_resp.status_code = 400
            /\ plan_resp.message = "Plan duration must be between 1 and 12 weeks"
       ELSE /\ Len(plan_calls) = 1
            /\ plan_calls[1].child_age = plan_req.child_age
            /\ plan_calls[1].plan_duration_weeks = plan_req.plan_duration_weeks
            /\ plan_calls[1].delay_level = lower(plan_req.delay_level)
            /\ plan_resp.status_code = IF plan_resp.success THEN 200 ELSE 500

\* 'Slight Delay' from an eight-year-old's form, twelve weeks: the generator
\* got 'slight delay', failed, and the answer is 500
C18_Witness ==
  /\ plan_req.child_age = 8
  /\ plan_req.delay_level = <<"S", "l", "i", "g", "h", "t", " ", "D", "e", "l", "a", "y">>
  /\ plan_req.plan_duration_weeks = 12
  /\ Len(plan_calls) = 1
  /\ plan_calls[1].delay_level = <<"s", "l", "i", "g", "h", "t", " ", "d", "e", "l", "a", "y">>
  /\ plan_resp.status_code = 500

====
